---- MODULE Spec2Model ----
(***************************************************************************)
(* FSM-to-dot-file generator: the NodeRed_FSM class (load, validate,       *)
(* buildDotFile), its two callers, the CLI script makeDotFile.py and the   *)
(* GUI handler FSMGeneratorGUI.generate, and the fields of the GUI window  *)
(* with their trace callbacks and Browse dialogs.                          *)
(*                                                                         *)
(* Python strings are sequences of one-character strings, so that          *)
(* formatting, escaping, substring tests and line splitting are computed   *)
(* and not assumed.  A JSON value is a record                              *)
(*   [t |-> kind, s |-> characters, n |-> number, items |-> members]       *)
(* with kind one of "dict", "list", "str", "num", "null"; the members of a *)
(* dict are [key, val] records in insertion order, those of a list carry   *)
(* the empty key.                                                          *)
(***************************************************************************)
EXTENDS Integers, Sequences, FiniteSets, TLC

VARIABLES mode, pc, name, input_file_path, output_file_path, user_notes, now,
          FSM_as_Dict, result, dotFileName, written, returned, exit_status,
          status_var, calls,
          input_var, name_var, output_var, pdf_var, dot_command_var,
          _auto_update_output, event

\* The fields of the GUI window, its auto-update flag, and the handler the
\* event loop ran last.
guiVars == <<input_var, name_var, output_var, pdf_var, dot_command_var,
             _auto_update_output, event>>

\* The NodeRed_FSM object and the run of its caller.
pipelineVars == <<mode, pc, name, input_file_path, output_file_path, user_notes, now,
                  FSM_as_Dict, result, dotFileName, written, returned, exit_status,
                  status_var, calls>>

vars == <<mode, pc, name, input_file_path, output_file_path, user_notes, now,
          FSM_as_Dict, result, dotFileName, written, returned, exit_status,
          status_var, calls, guiVars>>

(***************************************************************************)
(* Bounds of the model.                                                    *)
(***************************************************************************)
\* Most (source state, trigger) entries of a generated definition.
MaxPairs == 2
\* Longest user-notes string drawn over NotesAlphabet.
MaxNotesLen == 2

(***************************************************************************)
(* Strings.                                                                *)
(***************************************************************************)
\* Python: sub in s, for two strings.
IsSubstring(sub, s) ==
    \E i \in 0..(Len(s) - Len(sub)) : SubSeq(s, i + 1, i + Len(sub)) = sub

Digit(d) == <<"0", "1", "2", "3", "4", "5", "6", "7", "8", "9">>[d + 1]

RECURSIVE IntToStr(_)
\* str(n) for a non-negative int.
IntToStr(n) ==
    IF n < 10 THEN <<Digit(n)>> ELSE IntToStr(n \div 10) \o <<Digit(n % 10)>>

(***************************************************************************)
(* JSON values as json.loads() builds them.                                *)
(***************************************************************************)
JStr(s) == [t |-> "str", s |-> s, n |-> 0, items |-> <<>>]
JNum(n) == [t |-> "num", s |-> <<>>, n |-> n, items |-> <<>>]
JNull == [t |-> "null", s |-> <<>>, n |-> 0, items |-> <<>>]
JList(vals) ==
    [t |-> "list", s |-> <<>>, n |-> 0,
     items |-> [i \in 1..Len(vals) |-> [key |-> <<>>, val |-> vals[i]]]]
JDict(pairs) == [t |-> "dict", s |-> <<>>, n |-> 0, items |-> pairs]
Pair(k, v) == [key |-> k, val |-> v]

\* isinstance(v, dict)
IsDict(v) == v.t = "dict"

\* len(d) for a dict
DictLen(d) == Len(d.items)

\* key in d, for a dict d and a string key
HasKey(d, key) == \E i \in 1..Len(d.items) : d.items[i].key = key

\* d[key], for a dict d that has the key
Get(d, key) ==
    d.items[CHOOSE i \in 1..Len(d.items) : d.items[i].key = key].val

\* Python raises TypeError on "x in v" unless v is a container or a string.
SupportsIn(v) == v.t \in {"dict", "list", "str"}

\* Python: key in v, for a string key: a key of a dict, an element of a list,
\* a substring of a string.
PyIn(key, v) ==
    CASE v.t = "dict" -> HasKey(v, key)
      [] v.t = "list" -> \E i \in 1..Len(v.items) : v.items[i].val = JStr(key)
      [] v.t = "str" -> IsSubstring(key, v.s)
      [] OTHER -> FALSE

\* Lists and dicts are unhashable: looking one up in a dict or a set raises
\* TypeError.
Hashable(v) == v.t \in {"str", "num", "null"}

\* v in d for a dict (or a set of its keys) d and a hashable value v: only a
\* string can equal a key.
ValueIsKey(d, v) == v.t = "str" /\ HasKey(d, v.s)

\* str(v) as an f-string formats a hashable JSON value.
PyStr(v) ==
    CASE v.t = "str" -> v.s
      [] v.t = "num" -> IntToStr(v.n)
      [] OTHER -> <<"N","o","n","e">>

(***************************************************************************)
(* NodeRed_FSM.validate                                                    *)
(***************************************************************************)
KeyState == <<"s","t","a","t","e">>
KeyTransitions == <<"t","r","a","n","s","i","t","i","o","n","s">>
KeyStatus == <<"s","t","a","t","u","s">>

ErrMissingState == <<"M","i","s","s","i","n","g"," ","t","o","p","-","l","e","v","e",
                     "l"," ","k","e","y",":"," ","'","s","t","a","t","e","'">>
ErrMissingTransitions == <<"M","i","s","s","i","n","g"," ","t","o","p","-","l","e","v",
                           "e","l"," ","k","e","y",":"," ","'","t","r","a","n","s","i",
                           "t","i","o","n","s","'">>
ErrStateNoStatus == <<"'","s","t","a","t","e","'"," ","o","b","j","e","c","t"," ","i",
                      "s"," ","m","i","s","s","i","n","g"," ","'","s","t","a","t","u",
                      "s","'"," ","k","e","y">>
ErrTransitionsEmpty == <<"'","t","r","a","n","s","i","t","i","o","n","s","'"," ","m",
                         "u","s","t"," ","b","e"," ","a"," ","n","o","n","-","e","m",
                         "p","t","y"," ","o","b","j","e","c","t">>
ErrNotObject(source_state) ==
    <<"T","r","a","n","s","i","t","i","o","n","s"," ","f","o","r"," ","s","t","a","t",
      "e"," ","'">> \o source_state \o <<"'"," ","m","u","s","t"," ","b","e"," ","a",
                                         "n"," ","o","b","j","e","c","t">>
ErrNoStatus(source_state, trigger_name) ==
    <<"T","r","a","n","s","i","t","i","o","n"," ","'">> \o source_state \o <<"'"," ","-",">"," ","'">> \o trigger_name
    \o <<"'"," ","i","s"," ","m","i","s","s","i","n","g"," ","'","s","t","a","t","u",
         "s","'"," ","k","e","y">>
ErrInitial(initial_state) ==
    <<"I","n","i","t","i","a","l"," ","s","t","a","t","e"," ","'">> \o PyStr(initial_state) \o <<"'"," ","n","o","t"," ","f","o","u","n",
                                                                                                 "d"," ","i","n"," ","t","r","a","n","s",
                                                                                                 "i","t","i","o","n","s">>
ErrTarget(target, source_state, trigger_name) ==
    <<"T","a","r","g","e","t"," ","s","t","a","t","e"," ","'">> \o PyStr(target) \o <<"'"," ","(","f","r","o","m"," ","'">> \o source_state
    \o <<"'"," ","v","i","a"," ","'">> \o trigger_name \o <<"'",")"," ","i","s"," ","n","o","t"," ",
                                                            "d","e","f","i","n","e","d"," ","i","n",
                                                            " ","t","r","a","n","s","i","t","i","o",
                                                            "n","s">>

\* The two ways validate() ends: a returned list, or a TypeError that
\* propagates to the caller.
Returned(errors) == [raised |-> FALSE, errors |-> errors]
Raised == [raised |-> TRUE, errors |-> <<>>]

\* The trigger record is usable: a dict with a "status" key.
HasStatus(trigger_data) == IsDict(trigger_data) /\ HasKey(trigger_data, KeyStatus)

RECURSIVE MissingStatusTriggersStopAtFirst(_, _, _)
\* Variant: the inner loop leaves at the first offending trigger.
MissingStatusTriggersStopAtFirst(source_state, triggers, i) ==
    IF i > Len(triggers.items) THEN <<>>
    ELSE IF ~HasStatus(triggers.items[i].val)
         THEN <<ErrNoStatus(source_state, triggers.items[i].key)>>
         ELSE MissingStatusTriggersStopAtFirst(source_state, triggers, i + 1)

RECURSIVE MissingStatusTriggers(_, _, _)
\* Inner loop of the first pass, from the i-th trigger on.
MissingStatusTriggers(source_state, triggers, i) ==
    IF i > Len(triggers.items) THEN <<>>
    ELSE (IF HasStatus(triggers.items[i].val) THEN <<>>
          ELSE <<ErrNoStatus(source_state, triggers.items[i].key)>>)
         \o MissingStatusTriggers(source_state, triggers, i + 1)

MissingStatusOfState(source_state, triggers) ==
    IF ~IsDict(triggers) THEN <<ErrNotObject(source_state)>>
    ELSE MissingStatusTriggers(source_state, triggers, 1)

RECURSIVE MissingStatusErrors(_, _)
\* First pass over transitions, from the i-th source state on.
MissingStatusErrors(transitions, i) ==
    IF i > Len(transitions.items) THEN <<>>
    ELSE MissingStatusOfState(transitions.items[i].key, transitions.items[i].val)
         \o MissingStatusErrors(transitions, i + 1)

\* Variant: the initial state is not looked up.
InitialStateCheckSkipped(state, transitions) == Returned(<<>>)

\* The initial-state check; state is known to support "in".
InitialStateCheck(state, transitions) ==
    IF ~PyIn(KeyStatus, state) THEN Returned(<<>>)
    ELSE IF ~IsDict(state) THEN Raised
    ELSE LET initial_state == Get(state, KeyStatus)
         IN  IF ~Hashable(initial_state) THEN Raised
             ELSE IF ~ValueIsKey(transitions, initial_state)
                  THEN Returned(<<ErrInitial(initial_state)>>)
                  ELSE Returned(<<>>)

\* Variant: any hashable target passes for a defined state.
TargetCheckNoLookup(transitions, source_state, trigger_name, trigger_data) ==
    IF ~HasStatus(trigger_data) THEN Returned(<<>>)
    ELSE IF ~Hashable(Get(trigger_data, KeyStatus)) THEN Raised
    ELSE Returned(<<>>)

\* One trigger of the second pass.
TargetCheck(transitions, source_state, trigger_name, trigger_data) ==
    IF ~HasStatus(trigger_data) THEN Returned(<<>>)
    ELSE LET target == Get(trigger_data, KeyStatus)
         IN  IF ~Hashable(target) THEN Raised
             ELSE IF ~ValueIsKey(transitions, target)
                  THEN Returned(<<ErrTarget(target, source_state, trigger_name)>>)
                  ELSE Returned(<<>>)

\* Sequencing of two steps: an exception in the first skips the second.
Then(first, second) ==
    IF first.raised \/ second.raised THEN Raised
    ELSE Returned(first.errors \o second.errors)

RECURSIVE TargetTriggers(_, _, _, _)
TargetTriggers(transitions, source_state, triggers, i) ==
    IF i > Len(triggers.items) THEN Returned(<<>>)
    ELSE LET one == TargetCheck(transitions, source_state,
                                triggers.items[i].key, triggers.items[i].val)
         IN  IF one.raised THEN Raised
             ELSE Then(one, TargetTriggers(transitions, source_state, triggers, i + 1))

RECURSIVE TargetErrors(_, _)
\* Second pass over transitions, from the i-th source state on.
TargetErrors(transitions, i) ==
    IF i > Len(transitions.items) THEN Returned(<<>>)
    ELSE LET source_state == transitions.items[i].key
             triggers == transitions.items[i].val
             one == IF ~IsDict(triggers) THEN Returned(<<>>)
                    ELSE TargetTriggers(transitions, source_state, triggers, 1)
         IN  IF one.raised THEN Raised
             ELSE Then(one, TargetErrors(transitions, i + 1))

\* Variant: return at the first missing top-level key.
TopLevelErrorsFirstOnly(doc) ==
    IF ~PyIn(KeyState, doc) THEN <<ErrMissingState>>
    ELSE IF ~PyIn(KeyTransitions, doc) THEN <<ErrMissingTransitions>>
    ELSE <<>>

\* Variant: the "transitions" key is checked before the "state" key.
TopLevelErrorsTransitionsFirst(doc) ==
    (IF ~PyIn(KeyTransitions, doc) THEN <<ErrMissingTransitions>> ELSE <<>>)
    \o (IF ~PyIn(KeyState, doc) THEN <<ErrMissingState>> ELSE <<>>)

\* The top-level key checks.
TopLevelErrors(doc) ==
    (IF ~PyIn(KeyState, doc) THEN <<ErrMissingState>> ELSE <<>>)
    \o (IF ~PyIn(KeyTransitions, doc) THEN <<ErrMissingTransitions>> ELSE <<>>)

\* The checks after the top-level keys were found, on a dict.
ValidateBody(doc) ==
    LET state == Get(doc, KeyState)
        transitions == Get(doc, KeyTransitions)
        stateErrors == IF ~PyIn(KeyStatus, state) THEN <<ErrStateNoStatus>> ELSE <<>>
    IN  IF ~SupportsIn(state) THEN Raised
        ELSE IF ~IsDict(transitions) \/ DictLen(transitions) = 0
             THEN Returned(stateErrors \o <<ErrTransitionsEmpty>>)
             ELSE Then(Returned(stateErrors \o MissingStatusErrors(transitions, 1)),
                       Then(InitialStateCheck(state, transitions),
                            TargetErrors(transitions, 1)))

\* validate(): the list it returns, or the TypeError it raises.
Validate(doc) ==
    IF ~SupportsIn(doc) THEN Raised
    ELSE IF TopLevelErrors(doc) # <<>> THEN Returned(TopLevelErrors(doc))
    ELSE IF ~IsDict(doc) THEN Raised
    ELSE ValidateBody(doc)

(***************************************************************************)
(* os.path (POSIX flavour) and datetime.strftime                           *)
(***************************************************************************)
\* p.rfind(c) + 1: the position of the last c in p, 0 when there is none.
LastIndexOf(p, c) ==
    IF \E i \in 1..Len(p) : p[i] = c
    THEN CHOOSE i \in 1..Len(p) : p[i] = c /\ \A k \in (i + 1)..Len(p) : p[k] # c
    ELSE 0

RECURSIVE RStripSlashes(_)
\* head.rstrip("/")
RStripSlashes(p) ==
    IF p # <<>> /\ p[Len(p)] = "/" THEN RStripSlashes(SubSeq(p, 1, Len(p) - 1)) ELSE p

\* os.path.dirname(p)
Dirname(p) ==
    LET head == SubSeq(p, 1, LastIndexOf(p, "/"))
    IN  IF head # <<>> /\ \E i \in 1..Len(head) : head[i] # "/"
        THEN RStripSlashes(head) ELSE head

\* os.path.basename(p)
Basename(p) == SubSeq(p, LastIndexOf(p, "/") + 1, Len(p))

\* os.path.splitext(p)[0]: the extension starts at the last dot of the last
\* component, unless only dots precede it there.
SplitextRoot(p) ==
    LET sepIndex == LastIndexOf(p, "/")
        dotIndex == LastIndexOf(p, ".")
    IN  IF dotIndex > sepIndex /\ \E k \in (sepIndex + 1)..(dotIndex - 1) : p[k] # "."
        THEN SubSeq(p, 1, dotIndex - 1) ELSE p

\* os.path.join(a, b)
PathJoin(a, b) ==
    IF b # <<>> /\ b[1] = "/" THEN b
    ELSE IF a = <<>> \/ a[Len(a)] = "/" THEN a \o b
    ELSE a \o <<"/">> \o b

\* A number as strftime prints a field of the given width.
RECURSIVE Padded(_, _)
Padded(n, width) ==
    IF width = 0 THEN <<>> ELSE Padded(n \div 10, width - 1) \o <<Digit(n % 10)>>

\* now.strftime("%Y%m%d")
FileDate(t) == Padded(t.Y, 4) \o Padded(t.m, 2) \o Padded(t.d, 2)
\* now.strftime("%d/%m/%Y")
HeaderDate(t) == Padded(t.d, 2) \o <<"/">> \o Padded(t.m, 2) \o <<"/">> \o Padded(t.Y, 4)
\* now.strftime("%H:%M:%S")
HeaderTime(t) == Padded(t.H, 2) \o <<":">> \o Padded(t.M, 2) \o <<":">> \o Padded(t.S, 2)

(***************************************************************************)
(* NodeRed_FSM.buildDotFile                                                *)
(***************************************************************************)
PROGRAM_NAME == <<"m","a","k","e","D","o","t","F","i","l","e">>
Author == <<"P","e","t","e","r"," ","N","u","s","s","e","y">>
Newline == <<"\n">>

\* Variant: the caller's path is ignored.
ResolveDotFileNameIgnoringTarget(fsmName, inputPath, outputPath, t) ==
    PathJoin(Dirname(inputPath), fsmName \o <<"_">> \o FileDate(t) \o <<".","d","o","t">>)

\* self.dotFileName: the caller's path when one was given (None and "" both
\* count as not given), else <input directory>/<name>_<YYYYMMDD>.dot.
ResolveDotFileName(fsmName, inputPath, outputPath, t) ==
    IF outputPath # <<>> THEN outputPath
    ELSE PathJoin(Dirname(inputPath), fsmName \o <<"_">> \o FileDate(t) \o <<".","d","o","t">>)

\* Variant: the edge statements are not separated by newlines.
EdgeStatementNoNewline(k1, v2, k2) ==
    k1 \o <<" ","-",">"," ">> \o Get(v2, KeyStatus).s \o <<" ","[","l","a","b","e","l"," ","="," ",
                                                           "\"">> \o k2 \o <<"\"","]",";">>

\* One edge statement, with the newline that precedes it.
EdgeStatement(k1, v2, k2) ==
    Newline \o k1 \o <<" ","-",">"," ">> \o Get(v2, KeyStatus).s \o <<" ","[","l","a","b","e","l"," ","="," ",
                                                                      "\"">> \o k2 \o <<"\"","]",";">>

RECURSIVE EdgesOfState(_, _, _)
\* The inner loop over v1.items(), from the j-th trigger on.
EdgesOfState(k1, v1, j) ==
    IF j > Len(v1.items) THEN <<>>
    ELSE EdgeStatement(k1, v1.items[j].val, v1.items[j].key)
         \o EdgesOfState(k1, v1, j + 1)

RECURSIVE EdgesTextPrepending(_, _)
\* Variant: each state's statements are put before those gathered so far.
EdgesTextPrepending(transitions, i) ==
    IF i > Len(transitions.items) THEN <<>>
    ELSE EdgesTextPrepending(transitions, i + 1)
         \o EdgesOfState(transitions.items[i].key, transitions.items[i].val, 1)

RECURSIVE EdgesText(_, _)
\* The loop over FSM_as_Dict["transitions"].items(), from the i-th state on.
EdgesText(transitions, i) ==
    IF i > Len(transitions.items) THEN <<>>
    ELSE EdgesOfState(transitions.items[i].key, transitions.items[i].val, 1)
         \o EdgesText(transitions, i + 1)

RECURSIVE TransitionCount(_, _)
\* sum(len(v) for v in transitions_dict.values() if isinstance(v, dict))
TransitionCount(transitions, i) ==
    IF i > Len(transitions.items) THEN 0
    ELSE (IF IsDict(transitions.items[i].val) THEN DictLen(transitions.items[i].val) ELSE 0)
         + TransitionCount(transitions, i + 1)

\* self.FSM_as_Dict["state"].get("status", "unknown")
InitialStateOf(doc) ==
    IF HasKey(Get(doc, KeyState), KeyStatus)
    THEN Get(Get(doc, KeyState), KeyStatus).s ELSE <<"u","n","k","n","o","w","n">>

FileHeader(doc, fsmName, inputPath, t) ==
    Newline \o fsmName \o <<":"," ","s","c","r","i","p","t"," ","f","o","r"," ","r","e",
                            "n","d","e","r","i","n","g"," ","F","S","M"," ","d","i","a",
                            "g","r","a","m"," ","i","n"," ","G","r","a","p","h","v","i",
                            "z"," ","(",".","d","o","t"," ","f","o","r","m","a","t",")">>
    \o Newline \o <<"A","u","t","h","o","r",":"," ">> \o Author \o Newline
    \o <<"G","e","n","e","r","a","t","e","d"," ","b","y"," ">> \o PROGRAM_NAME \o <<" ">> \o HeaderTime(t) \o <<" ","o","n"," ">>
    \o HeaderDate(t) \o Newline
    \o <<"S","o","u","r","c","e",":"," ">> \o Basename(inputPath) \o Newline
    \o <<"S","t","a","t","e","s",":"," ">> \o IntToStr(DictLen(Get(doc, KeyTransitions)))
    \o <<" "," ","|"," "," ","T","r","a","n","s","i","t","i","o","n","s",":"," ">> \o IntToStr(TransitionCount(Get(doc, KeyTransitions), 1))
    \o Newline
    \o <<"I","n","i","t","i","a","l"," ","s","t","a","t","e",":"," ">> \o InitialStateOf(doc) \o Newline

\* 'dot -Tpdf \"<dot file>\" -o \"<pdf file>\"', quotes already escaped.
DotCommand(dotFile) ==
    <<"d","o","t"," ","-","T","p","d","f"," ","\\","\"">> \o dotFile \o <<"\\","\""," ","-","o"," ","\\","\"">> \o SplitextRoot(dotFile) \o <<".","p","d","f">>
    \o <<"\\","\"">>

RECURSIVE EscapeQuotes(_)
\* user_notes.replace('"', '\\"')
EscapeQuotes(notes) ==
    IF notes = <<>> THEN <<>>
    ELSE (IF Head(notes) = "\"" THEN <<"\\", "\"">> ELSE <<Head(notes)>>)
         \o EscapeQuotes(Tail(notes))

LabelContent(doc, fsmName, inputPath, dotFile, notes, t) ==
    FileHeader(doc, fsmName, inputPath, t) \o DotCommand(dotFile) \o Newline
    \o (IF notes # <<>> THEN <<"-","-","-">> \o Newline \o EscapeQuotes(notes) \o Newline
        ELSE <<>>)

LayoutInfo ==
    <<"d","i","g","r","a","p","h"," ","f","i","n","i","t","e","_","s","t","a","t","e",
      "_","m","a","c","h","i","n","e"," ","{","\n","\t","n","o","d","e"," ","[","f","o",
      "n","t","n","a","m","e","=","\"","H","e","l","v","e","t","i","c","a",",","A","r",
      "i","a","l",",","s","a","n","s","-","s","e","r","i","f","\"",","," ","f","o","n",
      "t","c","o","l","o","r","=","b","l","u","e",","," ","f","o","n","t","s","i","z",
      "e","=","7","]","\n","\t","e","d","g","e"," ","[","f","o","n","t","n","a","m","e",
      "=","\"","T","i","m","e","s","-","I","t","a","l","i","c","\"",","," ","f","o","n",
      "t","c","o","l","o","r","=","r","e","d",","," ","f","o","n","t","s","t","y","l",
      "e","=","i","t","a","l","i","c",","," ","f","o","n","t","s","i","z","e","=","7",
      ","," ","a","r","r","o","w","s","i","z","e","=","0",".","5","]","\n","\t","r","a",
      "n","k","d","i","r","=","L","R",";">>

DiagramFooterComment(label_content) ==
    <<"f","o","n","t","s","i","z","e","=","8","\n","l","a","b","e","l"," ","="," ","\"">> \o label_content \o <<"\"">>

\* The text f.write() is given.
DotText(doc, fsmName, inputPath, dotFile, notes, t) ==
    <<"/","*">> \o FileHeader(doc, fsmName, inputPath, t) \o <<"*","/">> \o Newline
    \o LayoutInfo \o Newline
    \o EdgesText(Get(doc, KeyTransitions), 1) \o Newline
    \o DiagramFooterComment(LabelContent(doc, fsmName, inputPath, dotFile, notes, t))
    \o <<"\n","}">>

\* buildDotFile() does not re-validate: it raises (KeyError, AttributeError,
\* TypeError) before the write unless "transitions" is an object of objects of
\* records with a string "status", and "state" an object whose "status", when
\* present, is a string.
RenderRaises(doc) ==
    \/ ~IsDict(doc) \/ ~HasKey(doc, KeyTransitions) \/ ~HasKey(doc, KeyState)
    \/ ~IsDict(Get(doc, KeyTransitions))
    \/ \E i \in 1..DictLen(Get(doc, KeyTransitions)) :
          LET v1 == Get(doc, KeyTransitions).items[i].val
          IN  \/ ~IsDict(v1)
              \/ \E j \in 1..DictLen(v1) :
                    \/ ~HasStatus(v1.items[j].val)
                    \/ Get(v1.items[j].val, KeyStatus).t # "str"
    \/ ~IsDict(Get(doc, KeyState))
    \/ /\ HasKey(Get(doc, KeyState), KeyStatus)
       /\ Get(Get(doc, KeyState), KeyStatus).t # "str"

(***************************************************************************)
(* Inputs: the JSON documents load_FSM_Definition() may store.             *)
(***************************************************************************)
StateNames == <<<<"a">>, <<"b">>>>
UndefinedState == <<"z">>
TriggerPrefix == <<"t">>

StatusRecord(target) == JDict(<<Pair(KeyStatus, target)>>)

\* Trigger records: well-formed ones (to a defined or an undefined state, to a
\* number, to a list), and malformed ones (no "status", not an object).
TriggerRecords ==
    {StatusRecord(JStr(StateNames[1])), StatusRecord(JStr(StateNames[2])),
     StatusRecord(JStr(UndefinedState)), StatusRecord(JNum(5)),
     StatusRecord(JList(<<>>)), JDict(<<>>), JNum(5)}

\* One entry of a definition under construction: a trigger record of a source
\* state, or a source state that is empty or is not an object.  The j-th
\* trigger of a state is named by its entry's prefix followed by j.
Entries ==
    {[src |-> StateNames[k], m |-> "rec", trig |-> TriggerPrefix, val |-> r] :
        k \in 1..Len(StateNames), r \in TriggerRecords}
    \cup {[src |-> StateNames[k], m |-> m, trig |-> <<>>, val |-> JNull] :
            k \in 1..Len(StateNames), m \in {"empty", "nonobj"}}

ListsOf(entries) == UNION {[1..n -> entries] : n \in 0..MaxPairs}

RECURSIVE SourcesOf(_, _)
\* The source states of an entry list, in order of first appearance.
SourcesOf(f, seen) ==
    IF f = <<>> THEN <<>>
    ELSE IF Head(f).src \in seen THEN SourcesOf(Tail(f), seen)
    ELSE <<Head(f).src>> \o SourcesOf(Tail(f), seen \cup {Head(f).src})

TriggersOf(f, s) ==
    LET recs == SelectSeq(f, LAMBDA e : e.src = s /\ e.m = "rec")
    IN  IF \E i \in 1..Len(f) : f[i].src = s /\ f[i].m = "nonobj" THEN JNum(7)
        ELSE JDict([j \in 1..Len(recs) |->
                      Pair(recs[j].trig \o IntToStr(j), recs[j].val)])

TransitionsOf(f) ==
    LET sources == SourcesOf(f, {})
    IN  JDict([k \in 1..Len(sources) |-> Pair(sources[k], TriggersOf(f, sources[k]))])

\* The "transitions" values: objects (the empty one too), and two values of
\* another type.
TransitionsValues ==
    {TransitionsOf(f) : f \in ListsOf(Entries)} \cup {JList(<<>>), JNum(5)}

\* The "state" values paired with every "transitions" value ...
StateValues ==
    {StatusRecord(JStr(StateNames[1])), StatusRecord(JStr(UndefinedState)), JDict(<<>>)}

\* ... and those of an unexpected type or with an unexpected "status", paired
\* with the small ones.
OddStateValues ==
    {JNum(5), JNull, JStr(KeyStatus), JList(<<JStr(KeyStatus)>>),
     StatusRecord(JList(<<>>)), StatusRecord(JNum(5))}

SmallTransitionsValues ==
    {tr \in TransitionsValues : tr.t # "dict" \/ DictLen(tr) <= 1}

\* A top-level object with the given members; NoMember leaves the key out.
NoMember == [t |-> "absent", s |-> <<>>, n |-> 0, items |-> <<>>]
Document(state, transitions) ==
    JDict((IF state = NoMember THEN <<>> ELSE <<Pair(KeyState, state)>>)
          \o (IF transitions = NoMember THEN <<>>
              ELSE <<Pair(KeyTransitions, transitions)>>))

\* Top-level values that are not objects.
OddDocuments ==
    {JNum(5), JNull, JList(<<>>), JList(<<JStr(KeyState), JStr(KeyTransitions)>>),
     JStr(KeyState), JStr(KeyState \o KeyTransitions)}

Documents ==
    {Document(st, tr) : st \in StateValues \cup {NoMember},
                        tr \in TransitionsValues \cup {NoMember}}
    \cup {Document(st, tr) : st \in OddStateValues,
                              tr \in SmallTransitionsValues \cup {NoMember}}
    \cup OddDocuments

(***************************************************************************)
(* Inputs of buildDotFile(): validated definitions, names, paths, notes.   *)
(***************************************************************************)
\* The definition of the specification's scenario A.
ScenarioA ==
    Document(StatusRecord(JStr(<<"i","d","l","e">>)),
             JDict(<<Pair(<<"i","d","l","e">>, JDict(<<Pair(<<"s","t","a","r","t">>, StatusRecord(JStr(<<"r","u","n","n","i","n","g">>)))>>)),
                     Pair(<<"r","u","n","n","i","n","g">>, JDict(<<Pair(<<"s","t","o","p">>, StatusRecord(JStr(<<"i","d","l","e">>)))>>))>>))

\* A definition whose first state has two triggers and whose second has one.
BranchingDefinition ==
    Document(StatusRecord(JStr(<<"i","d","l","e">>)),
             JDict(<<Pair(<<"i","d","l","e">>, JDict(<<Pair(<<"s","t","a","r","t">>, StatusRecord(JStr(<<"r","u","n","n","i","n","g">>))),
                                           Pair(<<"s","k","i","p">>, StatusRecord(JStr(<<"i","d","l","e">>)))>>)),
                     Pair(<<"r","u","n","n","i","n","g">>, JDict(<<Pair(<<"s","t","o","p">>, StatusRecord(JStr(<<"i","d","l","e">>)))>>))>>))

\* Identifiers with characters that matter in the DOT text.
RenderNames == <<<<"i","d","l","e">>, <<"a","-",">","b">>, <<"c","\n","d">>>>
RenderPrefixes == {<<"t">>, <<"-",">","\n","\"">>}

RenderEntries ==
    {[src |-> RenderNames[k], m |-> "rec", trig |-> p,
      val |-> StatusRecord(JStr(RenderNames[l]))] :
        k \in 1..Len(RenderNames), l \in 1..Len(RenderNames), p \in RenderPrefixes}

\* The definitions validate() accepts among the generated ones.
RenderDocs ==
    {d \in {Document(StatusRecord(JStr(RenderNames[k])), TransitionsOf(f)) :
              k \in 1..Len(RenderNames), f \in ListsOf(RenderEntries)} :
        Validate(d) = Returned(<<>>)}
    \cup {ScenarioA, BranchingDefinition}

FsmNames == {<<"f","s","m">>, <<"n","-",">","m">>, <<"q","\"">>, <<"/","a","b","s">>}
InputPaths == {<<"/","d","a","t","a","/","i","n",".","j","s","o","n">>, <<"i","n",".","j","s","o","n">>, <<"/","a","-",">","b","/","i","n",".","v",
                                                                                                           "2",".","j","s","o","n">>}
\* The empty path stands for output_file_path=None.
OutputPaths == {<<>>, <<"/","o","u","t","/","d",".","d","o","t">>, <<"o","-",">","p">>, <<".",".","/",".","d","o","t">>}

NotesAlphabet == {"x", "\"", "\\", "-", ">"}
NotesStrings == UNION {[1..n -> NotesAlphabet] : n \in 0..MaxNotesLen}

RenderInput(doc, fsmName, inputPath, outputPath, notes) ==
    [doc |-> doc, name |-> fsmName, input |-> inputPath, output |-> outputPath,
     notes |-> notes]

\* Every definition with one name and path; every name and path with one
\* definition; every notes string with one definition.
RenderInputs ==
    {RenderInput(d, <<"f","s","m">>, <<"/","d","a","t","a","/","i","n",".","j","s","o",
                                       "n">>, <<>>, <<>>) : d \in RenderDocs}
    \cup {RenderInput(ScenarioA, n, i, o, u) :
            n \in FsmNames, i \in InputPaths, o \in OutputPaths, u \in {<<>>, <<"x">>}}
    \cup {RenderInput(ScenarioA, <<"f","s","m">>, <<"/","d","a","t","a","/","i","n",".","j",
                                                    "s","o","n">>, o, u) :
            o \in {<<>>, <<"/","o","u","t","/","d",".","d","o","t">>}, u \in NotesStrings}

\* The values datetime.now() takes.
Times ==
    {[Y |-> 2026, m |-> 2, d |-> 17, H |-> 9, M |-> 5, S |-> 7],
     [Y |-> 1999, m |-> 12, d |-> 31, H |-> 23, M |-> 59, S |-> 0]}

(***************************************************************************)
(* State.                                                                  *)
(***************************************************************************)
NoResult == [raised |-> FALSE, errors |-> <<>>]
NoTime == [Y |-> 0, m |-> 0, d |-> 0, H |-> 0, M |-> 0, S |-> 0]
StatusReady == <<"R","e","a","d","y">>
\* Exit status of a process that has not ended.
Running == -1
\* buildDotFile() has not returned; it has no return statement, so the value
\* the caller gets when it does return is None.
NotReturned == [t |-> "pending", s |-> <<>>, n |-> 0, items |-> <<>>]
ReturnedNone == JNull

\* FSMGeneratorGUI.__init__: every StringVar is empty, auto-update is on.
InitFields ==
    /\ input_var = <<>>
    /\ name_var = <<>>
    /\ output_var = <<>>
    /\ pdf_var = <<>>
    /\ dot_command_var = <<>>
    /\ _auto_update_output = TRUE
    /\ event = "init"

\* A NodeRed_FSM whose definition is loaded, before validate() is called.
InitLoaded(doc) ==
    /\ mode = "unit"
    /\ pc = "loaded"
    /\ name = <<>>
    /\ input_file_path = <<>>
    /\ output_file_path = <<>>
    /\ user_notes = <<>>
    /\ now = NoTime
    /\ FSM_as_Dict = doc
    /\ result = NoResult
    /\ dotFileName = <<>>
    /\ written = <<>>
    /\ returned = NotReturned
    /\ InitFields
    /\ exit_status = Running
    /\ status_var = StatusReady
    /\ calls = <<"load">>

\* errors = FSM.validate()
DoValidate ==
    /\ pc = "loaded"
    /\ result' = Validate(FSM_as_Dict)
    /\ pc' = "validated"
    /\ calls' = Append(calls, "validate")
    /\ UNCHANGED <<guiVars, returned, mode, name, input_file_path, output_file_path, user_notes, now,
                   FSM_as_Dict, dotFileName, written, exit_status, status_var>>

\* Variant: the caller goes on whatever list validate() returned.
CallerProceedsIgnoringErrors(res) == ~res.raised

\* The caller's test "if errors:" let the run go on to buildDotFile().
CallerProceeds(res) == ~res.raised /\ res.errors = <<>>

\* FSM.buildDotFile(user_notes): the file name is resolved, the text built
\* and written; a structural failure or a failing open() raises instead.
DoBuildDotFile ==
    /\ pc = "validated"
    /\ CallerProceeds(result)
    /\ \E t \in Times, writable \in BOOLEAN :
          LET dotFile == ResolveDotFileName(name, input_file_path, output_file_path, t)
          IN  /\ now' = t
              /\ dotFileName' = dotFile
              /\ IF ~RenderRaises(FSM_as_Dict) /\ writable
                 THEN /\ written' = <<[path |-> dotFile,
                                       text |-> DotText(FSM_as_Dict, name, input_file_path,
                                                        dotFile, user_notes, t)]>>
                      /\ returned' = ReturnedNone
                      /\ pc' = "rendered"
                 ELSE /\ written' = written
                      /\ returned' = returned
                      /\ pc' = "render_raised"
    /\ calls' = Append(calls, "render")
    /\ UNCHANGED <<guiVars, mode, name, input_file_path, output_file_path, user_notes,
                   FSM_as_Dict, result, exit_status, status_var>>

\* A NodeRed_FSM whose definition validate() has accepted.
InitRender ==
    \E inp \in RenderInputs :
        /\ mode = "unit"
        /\ pc = "validated"
        /\ name = inp.name
        /\ input_file_path = inp.input
        /\ output_file_path = inp.output
        /\ user_notes = inp.notes
        /\ now = NoTime
        /\ FSM_as_Dict = inp.doc
        /\ result = Validate(inp.doc)
        /\ dotFileName = <<>>
        /\ written = <<>>
        /\ returned = NotReturned
        /\ InitFields
        /\ exit_status = Running
        /\ status_var = StatusReady
        /\ calls = <<"load", "validate">>
NextRender == DoBuildDotFile
SpecRender == InitRender /\ [][NextRender]_vars

\* validate() on every document of the bounded set.
InitValidate == \E doc \in Documents : InitLoaded(doc)
NextValidate == DoValidate
SpecValidate == InitValidate /\ [][NextValidate]_vars

\* validate() on every document of the bounded set, then buildDotFile() as
\* the callers invoke it: only when the returned list is empty.
NextValidateRender == DoValidate \/ DoBuildDotFile
SpecValidateRender == InitValidate /\ [][NextValidateRender]_vars

(***************************************************************************)
(* The callers: makeDotFile.py in CLI mode, FSMGeneratorGUI.generate.      *)
(***************************************************************************)
IsSpace(c) == c \in {" ", "\t", "\n"}

RECURSIVE LStrip(_)
LStrip(str) == IF str # <<>> /\ IsSpace(Head(str)) THEN LStrip(Tail(str)) ELSE str

RECURSIVE RStrip(_)
RStrip(str) ==
    IF str # <<>> /\ IsSpace(str[Len(str)]) THEN RStrip(SubSeq(str, 1, Len(str) - 1))
    ELSE str

\* str.strip()
Strip(str) == RStrip(LStrip(str))

\* sys.argv[1:], of one to four arguments.
CliArguments ==
    {<<<<"/","d","a","t","a","/">>>>, <<<<"/","d","a","t","a","/">>, <<"i","n",".","j","s","o","n">>>>,
     <<<<"/","d","a","t","a","/">>, <<"i","n",".","j","s","o","n">>, <<"f","s","m">>>>, <<<<"/","d","a","t","a">>, <<"i","n",".","j","s","o","n">>, <<"n","-",">","m">>>>,
     <<<<>>, <<"i","n",".","j","s","o","n">>, <<"f","s","m">>, <<"e","x","t","r","a">>>>}

\* What the GUI fields hold when Generate is pressed.
GuiInputFields == {<<" ">>, <<" ","/","d","a","t","a","/","i","n",".","j","s","o","n",
                              "\n">>}
GuiNameFields == {<<>>, <<" ","f","s","m"," ">>}
GuiOutputFields == {<<"\t">>, <<" ","/","o","u","t","/","d",".","v","2",".","d","o","t">>}
GuiNotesFields == {<<"\n">>, <<"s","a","y"," ","\"","h","i","\"","\n">>}

\* The documents the input file may hold.
PipelineDocs ==
    {ScenarioA,
     Document(StatusRecord(JStr(<<"i","d","l","e">>)), NoMember),
     Document(StatusRecord(JStr(<<"i","d","l","e">>)), JDict(<<>>)),
     Document(StatusRecord(JStr(<<"i","d","l","e">>)),
              JDict(<<Pair(<<"i","d","l","e">>, JDict(<<Pair(<<"g","o">>, StatusRecord(JStr(<<"z">>)))>>))>>)),
     Document(StatusRecord(JStr(<<"z">>)),
              JDict(<<Pair(<<"i","d","l","e">>, JDict(<<Pair(<<"g","o">>, JNum(5))>>))>>)),
     Document(JNum(5), JDict(<<>>)),
     Document(StatusRecord(JStr(<<"i","d","l","e">>)),
              JDict(<<Pair(<<"i","d","l","e">>, JDict(<<Pair(<<"g","o">>, StatusRecord(JList(<<>>)))>>))>>)),
     JNum(5), JList(<<>>)}

StatusNoInput == <<"E","r","r","o","r",":"," ","N","o"," ","i","n","p","u","t"," ","f",
                   "i","l","e"," ","s","p","e","c","i","f","i","e","d",".">>
StatusNotFound == <<"E","r","r","o","r",":"," ","I","n","p","u","t"," ","f","i","l","e",
                    " ","n","o","t"," ","f","o","u","n","d",".">>
StatusNoName == <<"E","r","r","o","r",":"," ","F","S","M"," ","n","a","m","e"," ","i",
                  "s"," ","e","m","p","t","y",".">>
StatusNoOutput == <<"E","r","r","o","r",":"," ","N","o"," ","o","u","t","p","u","t"," ",
                    "f","i","l","e"," ","s","p","e","c","i","f","i","e","d",".">>
\* "Error: " + str(e); the text of the exception is one opaque token.
StatusException == <<"E","r","r","o","r",":"," ">> \o <<"str(e)">>
StatusValidationFailed(errors) ==
    <<"V","a","l","i","d","a","t","i","o","n"," ","f","a","i","l","e","d",":"," ">> \o IntToStr(Len(errors)) \o <<" ","e","r","r","o","r","(","s",")">>
StatusSuccess(output_path) == <<"S","u","c","c","e","s","s",":"," ">> \o output_path

\* The process starts in CLI mode (arguments given) or shows the GUI.
Init ==
    /\ mode \in {"cli", "gui"}
    /\ pc = "start"
    /\ name = <<>>
    /\ input_file_path = <<>>
    /\ output_file_path = <<>>
    /\ user_notes = <<>>
    /\ now = NoTime
    /\ FSM_as_Dict = JStr(<<>>)
    /\ result = NoResult
    /\ dotFileName = <<>>
    /\ written = <<>>
    /\ returned = NotReturned
    /\ InitFields
    /\ exit_status = Running
    /\ status_var = StatusReady
    /\ calls = <<>>

\* CLI mode up to FSM = NodeRed_FSM(FSM_Name, input_file_path); with fewer
\* than three arguments sys.argv[2] or sys.argv[3] raises IndexError.
CliStart ==
    /\ mode = "cli" /\ pc = "start"
    /\ \E argv \in CliArguments :
          IF Len(argv) < 3
          THEN /\ pc' = "done"
               /\ exit_status' = 1
               /\ UNCHANGED <<name, input_file_path>>
          ELSE /\ pc' = "constructed"
               /\ name' = argv[3]
               /\ input_file_path' = argv[1] \o argv[2]
               /\ UNCHANGED exit_status
    /\ UNCHANGED <<guiVars, returned, mode, output_file_path, user_notes, now, FSM_as_Dict, result,
                   dotFileName, written, status_var, calls>>

\* generate() up to fsm = NodeRed_FSM(fsm_name, input_path, output_path): the
\* fields are read and stripped, and the four field checks may end the handler.
\* calls and written record what this run of the handler did; the new object
\* starts with FSM_as_Dict = "" and dotFileName = "".
GuiGenerate ==
    /\ mode = "gui" /\ pc \in {"start", "done"}
    /\ \E input_text \in GuiInputFields, name_text \in GuiNameFields,
          output_text \in GuiOutputFields, notes_text \in GuiNotesFields,
          isfile \in BOOLEAN :
          LET input_path == Strip(input_text)
              fsm_name == Strip(name_text)
              output_path == Strip(output_text)
              early == IF input_path = <<>> THEN StatusNoInput
                       ELSE IF ~isfile THEN StatusNotFound
                       ELSE IF fsm_name = <<>> THEN StatusNoName
                       ELSE IF output_path = <<>> THEN StatusNoOutput
                       ELSE <<>>
          IN  IF early # <<>>
              THEN /\ status_var' = early
                   /\ pc' = "done"
                   /\ UNCHANGED <<name, input_file_path, output_file_path, user_notes>>
              ELSE /\ pc' = "constructed"
                   /\ name' = fsm_name
                   /\ input_file_path' = input_path
                   /\ output_file_path' = output_path
                   /\ user_notes' = Strip(notes_text)
                   /\ UNCHANGED status_var
    /\ calls' = <<>>
    /\ written' = <<>>
    /\ result' = NoResult
    /\ now' = NoTime
    /\ FSM_as_Dict' = JStr(<<>>)
    /\ dotFileName' = <<>>
    /\ returned' = NotReturned
    /\ UNCHANGED <<guiVars, mode, exit_status>>

\* load_FSM_Definition(): the parsed document is stored, or open() or
\* json.loads() raises (NoMember stands for that outcome).
DoLoad ==
    /\ pc = "constructed"
    /\ \E doc \in PipelineDocs \cup {NoMember} :
          IF doc = NoMember
          THEN pc' = "load_raised" /\ UNCHANGED FSM_as_Dict
          ELSE pc' = "loaded" /\ FSM_as_Dict' = doc
    /\ calls' = Append(calls, "load")
    /\ UNCHANGED <<guiVars, returned, mode, name, input_file_path, output_file_path, user_notes, now,
                   result, dotFileName, written, exit_status, status_var>>

\* The handler is past validate() and does not go on to buildDotFile().
StopsAfterValidate == pc = "validated" /\ ~CallerProceeds(result)

\* The end of the CLI run: sys.exit(1) after the errors are printed, status 1
\* from an exception nothing catches, status 0 after buildDotFile() returned.
CliExit ==
    /\ mode = "cli"
    /\ pc \in {"load_raised", "rendered", "render_raised"} \/ StopsAfterValidate
    /\ exit_status' = IF pc = "rendered" THEN 0 ELSE 1
    /\ pc' = "done"
    /\ UNCHANGED <<guiVars, returned, mode, name, input_file_path, output_file_path, user_notes, now,
                   FSM_as_Dict, result, dotFileName, written, status_var, calls>>

\* The end of generate(): the status line tells the outcome; "except
\* Exception" catches what load, validate or buildDotFile raised.
GuiReturn ==
    /\ mode = "gui"
    /\ pc \in {"load_raised", "rendered", "render_raised"} \/ StopsAfterValidate
    /\ status_var' =
          IF pc = "rendered" THEN StatusSuccess(output_file_path)
          ELSE IF pc = "validated" /\ ~result.raised
               THEN StatusValidationFailed(result.errors)
               ELSE StatusException
    /\ pc' = "done"
    /\ UNCHANGED <<guiVars, returned, mode, name, input_file_path, output_file_path, user_notes, now,
                   FSM_as_Dict, result, dotFileName, written, exit_status, calls>>

Next == CliStart \/ GuiGenerate \/ DoLoad \/ DoValidate \/ DoBuildDotFile
        \/ CliExit \/ GuiReturn
Spec == Init /\ [][Next]_vars

(***************************************************************************)
(* The GUI window: the fields, their trace callbacks and the Browse        *)
(* dialogs.  A handler of the Tk event loop runs to its end, the callbacks *)
(* it triggers included, before the next event is taken.                   *)
(***************************************************************************)
\* What the user types or pastes into the fields, and what the dialogs return
\* (the empty path: the dialog was cancelled).
InputTexts == {<<>>, <<"/","d","a","t","a","/","i","n",".","j","s","o","n">>, <<"i","n",".","v","2",".","j","s","o","n">>}
NameTexts == {<<>>, <<"f","s","m">>, <<"/","a","b","s">>}
OutputTexts == {<<>>, <<"/","o","u","t","/","d",".","d","o","t">>, <<"n","o","e","x","t">>}
PdfTexts == {<<>>, <<"/","p","/","x",".","p","d","f">>}
OpenDialogPaths == {<<>>, <<"/","d","a","t","a","/","i","n",".","j","s","o","n">>}
SaveDialogPaths == {<<>>, <<"/","s","a","v","e","/","s",".","v","2",".","d","o","t">>}

\* Variant: the path is built whatever the fields hold.
_build_output_path_unguarded(input_path, fsm_name, t) ==
    PathJoin(Dirname(input_path), fsm_name \o <<"_">> \o FileDate(t) \o <<".","d","o","t">>)

\* _build_output_path(): the suggestion, empty unless both fields are set.
_build_output_path(input_path, fsm_name, t) ==
    IF input_path # <<>> /\ fsm_name # <<>>
    THEN PathJoin(Dirname(input_path), fsm_name \o <<"_">> \o FileDate(t) \o <<".","d","o","t">>)
    ELSE <<>>

\* _on_pdf_changed: the command rebuilt from the two fields, or cleared.
_on_pdf_changed(dot_path, pdf_path) ==
    IF dot_path # <<>> /\ pdf_path # <<>>
    THEN <<"d","o","t"," ","-","T","p","d","f"," ","\"">> \o dot_path \o <<"\""," ","-","o"," ","\"">> \o pdf_path \o <<"\"">>
    ELSE <<>>

\* _on_output_dot_changed: the PDF path the DOT path gives.
_on_output_dot_changed(dot_path) ==
    IF dot_path # <<>> THEN SplitextRoot(dot_path) \o <<".","p","d","f">> ELSE <<>>

\* pdf_var.set(v) and its trace.
SetPdf(v) ==
    /\ pdf_var' = v
    /\ dot_command_var' = _on_pdf_changed(output_var', v)

\* output_var.set(v) and its trace.
SetOutput(v) ==
    /\ output_var' = v
    /\ SetPdf(_on_output_dot_changed(v))

\* name_var.set(v) and its trace _on_name_changed.
SetName(v) ==
    /\ name_var' = v
    /\ IF _auto_update_output
       THEN \E t \in Times : SetOutput(_build_output_path(input_var', v, t))
       ELSE UNCHANGED <<output_var, pdf_var, dot_command_var>>

\* input_var.set(v) and its trace _on_input_changed; isfile is what
\* os.path.isfile answers for v.
SetInput(v, isfile) ==
    /\ input_var' = v
    /\ IF v # <<>> /\ isfile
       THEN SetName(SplitextRoot(Basename(v)))
       ELSE UNCHANGED <<name_var, output_var, pdf_var, dot_command_var>>

\* The window is shown and no handler is running.
GuiIdle == mode = "gui" /\ pc \in {"start", "done"}

\* The user edits the Input JSON File entry.
EditInput ==
    /\ GuiIdle
    /\ \E v \in InputTexts, isfile \in BOOLEAN : SetInput(v, isfile)
    /\ event' = "edit_input"
    /\ UNCHANGED <<_auto_update_output, pipelineVars>>

\* browse_input_file
BrowseInput ==
    /\ GuiIdle
    /\ \E filepath \in OpenDialogPaths, isfile \in BOOLEAN :
          IF filepath # <<>> THEN SetInput(filepath, isfile)
          ELSE UNCHANGED <<input_var, name_var, output_var, pdf_var, dot_command_var>>
    /\ event' = "browse_input"
    /\ UNCHANGED <<_auto_update_output, pipelineVars>>

\* The user edits the FSM Name entry.
EditName ==
    /\ GuiIdle
    /\ input_var' = input_var
    /\ \E v \in NameTexts : SetName(v)
    /\ event' = "edit_name"
    /\ UNCHANGED <<_auto_update_output, pipelineVars>>

\* The user edits the Output DOT File entry.
EditOutput ==
    /\ GuiIdle
    /\ \E v \in OutputTexts : SetOutput(v)
    /\ event' = "edit_output"
    /\ UNCHANGED <<input_var, name_var, _auto_update_output, pipelineVars>>

\* browse_output_file
BrowseOutput ==
    /\ GuiIdle
    /\ \E filepath \in SaveDialogPaths :
          IF filepath # <<>>
          THEN /\ _auto_update_output' = FALSE
               /\ SetOutput(filepath)
          ELSE UNCHANGED <<_auto_update_output, output_var, pdf_var, dot_command_var>>
    /\ event' = "browse_output"
    /\ UNCHANGED <<input_var, name_var, pipelineVars>>

\* The user edits the Output PDF File entry, which is not read-only.
EditPdf ==
    /\ GuiIdle
    /\ output_var' = output_var
    /\ \E v \in PdfTexts : SetPdf(v)
    /\ event' = "edit_pdf"
    /\ UNCHANGED <<input_var, name_var, _auto_update_output, pipelineVars>>

InitGui == Init /\ mode = "gui"
NextGui == EditInput \/ BrowseInput \/ EditName \/ EditOutput \/ BrowseOutput \/ EditPdf
SpecGui == InitGui /\ [][NextGui]_vars

(***************************************************************************)
(* Vocabulary of the properties of validate().                             *)
(***************************************************************************)
Validated == pc = "validated"

\* The loaded document is a JSON object.
IsObject(doc) == doc.t = "dict"
HasMember(doc, key) == \E i \in 1..Len(doc.items) : doc.items[i].key = key
Member(doc, key) == doc.items[CHOOSE i \in 1..Len(doc.items) : doc.items[i].key = key].val

\* The document reaches the per-transition checks: both top-level keys, a
\* "state" that can be searched for "status", a non-empty "transitions" object.
ReachesTransitionChecks(doc) ==
    /\ IsObject(doc) /\ HasMember(doc, KeyState) /\ HasMember(doc, KeyTransitions)
    /\ Member(doc, KeyState).t \in {"dict", "list", "str"}
    /\ IsObject(Member(doc, KeyTransitions))
    /\ Len(Member(doc, KeyTransitions).items) > 0

\* v names a source state of tr.
IsSourceState(tr, v) == v.t = "str" /\ HasMember(tr, v.s)

\* The (source state, trigger) pairs of tr, as positions <<i, j>>.
PairsOf(tr) ==
    UNION {{<<i, j>> : j \in 1..Len(tr.items[i].val.items)} :
             i \in {k \in 1..Len(tr.items) : IsObject(tr.items[k].val)}}
SourceAt(tr, p) == tr.items[p[1]].key
TriggerAt(tr, p) == tr.items[p[1]].val.items[p[2]].key
RecordAt(tr, p) == tr.items[p[1]].val.items[p[2]].val
HasTarget(tr, p) == IsObject(RecordAt(tr, p)) /\ HasMember(RecordAt(tr, p), KeyStatus)
TargetAt(tr, p) == Member(RecordAt(tr, p), KeyStatus)

\* Occurrences of a message in a list of errors.
Occurrences(errors, msg) == Cardinality({k \in 1..Len(errors) : errors[k] = msg})

\* The three invariants of the data model: "transitions" non-empty, the
\* initial state a source state, every transition's target a source state.
TransitionsNonEmpty(doc) ==
    /\ IsObject(doc) /\ HasMember(doc, KeyTransitions)
    /\ IsObject(Member(doc, KeyTransitions))
    /\ Len(Member(doc, KeyTransitions).items) > 0
InitialIsSource(doc) ==
    /\ HasMember(doc, KeyState)
    /\ IsObject(Member(doc, KeyState))
    /\ HasMember(Member(doc, KeyState), KeyStatus)
    /\ IsSourceState(Member(doc, KeyTransitions), Member(Member(doc, KeyState), KeyStatus))
TargetsAreSources(doc) ==
    \A p \in PairsOf(Member(doc, KeyTransitions)) :
        /\ HasTarget(Member(doc, KeyTransitions), p)
        /\ IsSourceState(Member(doc, KeyTransitions),
                         TargetAt(Member(doc, KeyTransitions), p))
DataModelInvariants(doc) ==
    TransitionsNonEmpty(doc) /\ InitialIsSource(doc) /\ TargetsAreSources(doc)

\* Every source state maps to an object of triggers.
SourcesAreObjects(doc) ==
    \A i \in 1..Len(Member(doc, KeyTransitions).items) :
        IsObject(Member(doc, KeyTransitions).items[i].val)

(***************************************************************************)
(* C1                                                                      *)
(***************************************************************************)
\* C1 as stated: validate() returns the empty list exactly when the three
\* invariants of the data model hold (a trigger record without a target
\* counted as breaking the third).
C1_EmptyIffInvariants ==
    Validated =>
        ((result = Returned(<<>>)) <=> DataModelInvariants(FSM_as_Dict))

\* C1 (amended): validate() returns the empty list exactly when the three
\* invariants hold and, besides, every source state maps to an object of
\* triggers whose records are objects with a "status" field.
C1_EmptyIffWellFormed ==
    Validated =>
        ((result = Returned(<<>>))
            <=> (DataModelInvariants(FSM_as_Dict) /\ SourcesAreObjects(FSM_as_Dict)))

\* validate() accepted a definition of two source states.
C1_Witness ==
    /\ Validated /\ result = Returned(<<>>)
    /\ Len(Member(FSM_as_Dict, KeyTransitions).items) = 2
    /\ PairsOf(Member(FSM_as_Dict, KeyTransitions)) # {}

(***************************************************************************)
(* C2                                                                      *)
(***************************************************************************)
TransitionsAbsentOrEmpty(doc) ==
    /\ IsObject(doc)
    /\ \/ ~HasMember(doc, KeyTransitions)
       \/ /\ IsObject(Member(doc, KeyTransitions))
          /\ Len(Member(doc, KeyTransitions).items) = 0

\* C2 as stated: with "transitions" absent or empty, validate() returns a
\* non-empty list and does not raise, whatever the type of "state".
C2_AbsentOrEmptyReturnsErrors ==
    (Validated /\ TransitionsAbsentOrEmpty(FSM_as_Dict)) =>
        (~result.raised /\ result.errors # <<>>)

(***************************************************************************)
(* C3                                                                      *)
(***************************************************************************)
StateAbsent(doc) == IsObject(doc) /\ ~HasMember(doc, KeyState)
TransitionsAbsent(doc) == IsObject(doc) /\ ~HasMember(doc, KeyTransitions)

\* C3 as stated: without a "state" key the result is the single missing-state
\* error; the "transitions" key is not looked at.
C3_OnlyStateError ==
    (Validated /\ StateAbsent(FSM_as_Dict)) =>
        result = Returned(<<ErrMissingState>>)

\* C3 (amended): without a "state" key validate() emits the missing-state
\* error, still checks the "transitions" key (adding its error when that key
\* is absent too) and returns before any later check.
C3_StateErrorThenTransitionsKey ==
    (Validated /\ StateAbsent(FSM_as_Dict)) =>
        result = Returned(<<ErrMissingState>>
                          \o (IF HasMember(FSM_as_Dict, KeyTransitions) THEN <<>>
                              ELSE <<ErrMissingTransitions>>))

\* validate() ran on an object with neither key.
C3_Witness ==
    /\ Validated /\ StateAbsent(FSM_as_Dict) /\ TransitionsAbsent(FSM_as_Dict)
    /\ Len(result.errors) = 2

(***************************************************************************)
(* C4                                                                      *)
(***************************************************************************)
\* C4 as stated: without a "transitions" key the result is exactly the
\* one-element list of the missing-transitions error.
C4_OnlyTransitionsError ==
    (Validated /\ TransitionsAbsent(FSM_as_Dict)) =>
        result = Returned(<<ErrMissingTransitions>>)

\* C4 (amended): without a "transitions" key the result is the
\* missing-transitions error, preceded by the missing-state error when the
\* "state" key is absent too, and no further check contributes.
C4_TransitionsErrorAfterStateKey ==
    (Validated /\ TransitionsAbsent(FSM_as_Dict)) =>
        /\ ~result.raised
        /\ result.errors[Len(result.errors)] = ErrMissingTransitions
        /\ Len(result.errors) = (IF HasMember(FSM_as_Dict, KeyState) THEN 1 ELSE 2)
        /\ Len(result.errors) = 2 => result.errors[1] = ErrMissingState

\* validate() ran on an object with a "state" of another type and no
\* "transitions".
C4_Witness ==
    /\ Validated /\ TransitionsAbsent(FSM_as_Dict)
    /\ HasMember(FSM_as_Dict, KeyState)
    /\ ~IsObject(Member(FSM_as_Dict, KeyState))
    /\ result = Returned(<<ErrMissingTransitions>>)

(***************************************************************************)
(* C5                                                                      *)
(***************************************************************************)
\* The pairs whose record has a "status" target that is no source state.
DanglingPairs(tr) ==
    {p \in PairsOf(tr) : HasTarget(tr, p) /\ ~IsSourceState(tr, TargetAt(tr, p))}

\* The message naming the source state, the trigger and the missing target of
\* a pair.
TargetMessage(tr, p) ==
    <<"T","a","r","g","e","t"," ","s","t","a","t","e"," ","'">> \o PyStr(TargetAt(tr, p)) \o <<"'"," ","(","f","r","o","m"," ","'">> \o SourceAt(tr, p)
    \o <<"'"," ","v","i","a"," ","'">> \o TriggerAt(tr, p) \o <<"'",")"," ","i","s"," ","n","o","t"," ",
                                                                "d","e","f","i","n","e","d"," ","i","n",
                                                                " ","t","r","a","n","s","i","t","i","o",
                                                                "n","s">>

IsTargetMessage(msg) ==
    Len(msg) >= 14 /\ SubSeq(msg, 1, 14) = <<"T","a","r","g","e","t"," ","s","t","a",
                                             "t","e"," ","'">>

\* The initial-state check runs to its end: "state" is an object whose
\* "status", when present, is a string, a number or null.
InitialStateIsChecked(doc) ==
    /\ IsObject(Member(doc, KeyState))
    /\ HasMember(Member(doc, KeyState), KeyStatus) =>
           Member(Member(doc, KeyState), KeyStatus).t \in {"str", "num", "null"}

\* C5 as stated: for a definition that passes the top-level and non-empty
\* checks, validate() returns a list holding exactly one target error for each
\* pair whose target is no source state, naming source, trigger and target, and
\* no other target error.
C5_OneErrorPerDanglingTarget ==
    (/\ Validated /\ ReachesTransitionChecks(FSM_as_Dict)
     /\ InitialStateIsChecked(FSM_as_Dict)) =>
        LET tr == Member(FSM_as_Dict, KeyTransitions)
        IN  /\ ~result.raised
            /\ \A p \in DanglingPairs(tr) :
                   Occurrences(result.errors, TargetMessage(tr, p)) = 1
            /\ Cardinality({k \in 1..Len(result.errors) :
                               IsTargetMessage(result.errors[k])})
                   = Cardinality(DanglingPairs(tr))

(***************************************************************************)
(* C6                                                                      *)
(***************************************************************************)
\* The triggers whose record is not an object or lacks "status".
OffendingPairs(tr) == {p \in PairsOf(tr) : ~HasTarget(tr, p)}

\* The source states whose value is not an object of triggers.
NonObjectSources(tr) == {i \in 1..Len(tr.items) : ~IsObject(tr.items[i].val)}

NoStatusMessage(tr, p) ==
    <<"T","r","a","n","s","i","t","i","o","n"," ","'">> \o SourceAt(tr, p) \o <<"'"," ","-",">"," ","'">> \o TriggerAt(tr, p)
    \o <<"'"," ","i","s"," ","m","i","s","s","i","n","g"," ","'","s","t","a","t","u",
         "s","'"," ","k","e","y">>

\* The errors of the malformed-trigger step on the loaded definition.
StepErrors == MissingStatusErrors(Member(FSM_as_Dict, KeyTransitions), 1)

\* C6 as stated: the malformed-trigger step emits as many errors as there are
\* offending triggers over all source states.
C6_OneErrorPerOffendingTrigger ==
    (Validated /\ ReachesTransitionChecks(FSM_as_Dict)) =>
        Len(StepErrors) = Cardinality(OffendingPairs(Member(FSM_as_Dict, KeyTransitions)))

\* C6 (amended): the step emits exactly one error for each offending trigger
\* and one for each source state whose value is not an object; an offending
\* trigger does not stop the triggers and states after it from being checked.
C6_OneErrorPerOffendingTriggerOrSource ==
    (Validated /\ ReachesTransitionChecks(FSM_as_Dict)) =>
        LET tr == Member(FSM_as_Dict, KeyTransitions)
        IN  /\ Len(StepErrors)
                  = Cardinality(OffendingPairs(tr)) + Cardinality(NonObjectSources(tr))
            /\ \A p \in OffendingPairs(tr) :
                   Occurrences(StepErrors, NoStatusMessage(tr, p)) = 1
            /\ ~result.raised =>
                   \A k \in 1..Len(StepErrors) : Occurrences(result.errors, StepErrors[k]) = 1

\* The step reported two offending triggers of one definition, the second in
\* another source state, and validate() returned them.
C6_Witness ==
    /\ Validated /\ ReachesTransitionChecks(FSM_as_Dict)
    /\ ~result.raised
    /\ \E p, q \in OffendingPairs(Member(FSM_as_Dict, KeyTransitions)) :
          /\ p[1] < q[1]
          /\ Occurrences(result.errors,
                         NoStatusMessage(Member(FSM_as_Dict, KeyTransitions), q)) = 1

(***************************************************************************)
(* Vocabulary of the properties of buildDotFile().                         *)
(***************************************************************************)
Rendered == pc = "rendered"
WrittenText == written[1].text

\* The pairs of tr in iteration order: outer mapping first, then inner.
Before(p, q) == p[1] < q[1] \/ (p[1] = q[1] /\ p[2] < q[2])
PairNumber(tr, k) ==
    CHOOSE p \in PairsOf(tr) : Cardinality({q \in PairsOf(tr) : Before(q, p)}) = k - 1

\* <source> -> <target> [label = "<trigger>"];
EdgeLine(tr, p) ==
    SourceAt(tr, p) \o <<" ","-",">"," ">> \o TargetAt(tr, p).s \o <<" ","[","l","a","b","e","l"," ","="," ",
                                                                     "\"">>
    \o TriggerAt(tr, p) \o <<"\"","]",";">>

RECURSIVE EdgeLinesFrom(_, _)
\* The lines of the pairs from the k-th on, each after a newline.
EdgeLinesFrom(tr, k) ==
    IF k > Cardinality(PairsOf(tr)) THEN <<>>
    ELSE Newline \o EdgeLine(tr, PairNumber(tr, k)) \o EdgeLinesFrom(tr, k + 1)

\* What the file holds before and after the edge section.
TextBeforeEdges ==
    <<"/","*">> \o FileHeader(FSM_as_Dict, name, input_file_path, now) \o <<"*","/">> \o Newline
    \o LayoutInfo \o Newline
TextAfterEdges ==
    Newline
    \o DiagramFooterComment(LabelContent(FSM_as_Dict, name, input_file_path,
                                         dotFileName, user_notes, now))
    \o <<"\n","}">>

RECURSIVE SplitLines(_)
\* text.split("\n")
SplitLines(text) ==
    IF \E i \in 1..Len(text) : text[i] = "\n"
    THEN LET i == CHOOSE i \in 1..Len(text) :
                     text[i] = "\n" /\ \A k \in 1..(i - 1) : text[k] # "\n"
         IN  <<SubSeq(text, 1, i - 1)>> \o SplitLines(SubSeq(text, i + 1, Len(text)))
    ELSE <<text>>

Arrow == <<"-",">">>
ArrowLines(text) ==
    Cardinality({k \in 1..Len(SplitLines(text)) : IsSubstring(Arrow, SplitLines(text)[k])})
ArrowFree(str) == ~IsSubstring(Arrow, str)

\* No state or trigger identifier of the definition contains "->".
IdentifiersArrowFree(tr) ==
    /\ \A i \in 1..Len(tr.items) : ArrowFree(tr.items[i].key)
    /\ \A p \in PairsOf(tr) : ArrowFree(TriggerAt(tr, p)) /\ ArrowFree(TargetAt(tr, p).s)

\* The backslashes that immediately precede position i of text.
BackslashesBefore(text, i) ==
    CHOOSE n \in 0..(i - 1) :
        /\ \A k \in 1..n : text[i - k] = "\\"
        /\ n = i - 1 \/ text[i - n - 1] # "\\"

\* The double quotes of text that the DOT scanner does not take as escaped.
\* It reads a backslash together with the character after it, so a quote is
\* escaped when an odd number of backslashes precedes it.
UnescapedQuotes(text) ==
    Cardinality({i \in 1..Len(text) :
                    text[i] = "\"" /\ BackslashesBefore(text, i) % 2 = 0})

HasQuote(str) == \E i \in 1..Len(str) : str[i] = "\""

(***************************************************************************)
(* C7                                                                      *)
(***************************************************************************)
\* C7: the edge section of the written file is exactly the lines
\* <source> -> <target> [label = "<trigger>"]; of the (source state, trigger)
\* pairs, once each, in the iteration order of the outer and then the inner
\* mapping; for the idle/running definition these are the two lines of
\* scenario A.
C7_EdgeSectionIsPairsInOrder ==
    Rendered =>
        /\ WrittenText
              = TextBeforeEdges
                \o EdgeLinesFrom(Member(FSM_as_Dict, KeyTransitions), 1)
                \o TextAfterEdges
        /\ FSM_as_Dict = ScenarioA =>
              EdgeLinesFrom(Member(FSM_as_Dict, KeyTransitions), 1)
                 = <<"\n","i","d","l","e"," ","-",">"," ","r","u","n","n","i","n","g",
                     " ","[","l","a","b","e","l"," ","="," ","\"","s","t","a","r","t",
                     "\"","]",";","\n","r","u","n","n","i","n","g"," ","-",">"," ","i",
                     "d","l","e"," ","[","l","a","b","e","l"," ","="," ","\"","s","t",
                     "o","p","\"","]",";">>
        /\ FSM_as_Dict = BranchingDefinition =>
              EdgeLinesFrom(Member(FSM_as_Dict, KeyTransitions), 1)
                 = <<"\n","i","d","l","e"," ","-",">"," ","r","u","n","n","i","n","g",
                     " ","[","l","a","b","e","l"," ","="," ","\"","s","t","a","r","t",
                     "\"","]",";","\n","i","d","l","e"," ","-",">"," ","i","d","l","e",
                     " ","[","l","a","b","e","l"," ","="," ","\"","s","k","i","p","\"",
                     "]",";","\n","r","u","n","n","i","n","g"," ","-",">"," ","i","d",
                     "l","e"," ","[","l","a","b","e","l"," ","="," ","\"","s","t","o",
                     "p","\"","]",";">>

\* A file was written for a definition with two triggers in one state and a
\* second state.
C7_Witness ==
    /\ Rendered
    /\ \E p, q \in PairsOf(Member(FSM_as_Dict, KeyTransitions)) : p[1] = q[1] /\ p[2] < q[2]
    /\ Len(Member(FSM_as_Dict, KeyTransitions).items) = 2

(***************************************************************************)
(* C8                                                                      *)
(***************************************************************************)
\* C8 as stated: whatever the name, the paths and the notes, the lines of the
\* written text that contain "->" are as many as the triggers of all states,
\* which is the number printed after "Transitions:".
C8_ArrowLinesEqualTriggers ==
    Rendered =>
        /\ ArrowLines(WrittenText) = Cardinality(PairsOf(Member(FSM_as_Dict, KeyTransitions)))
        /\ TransitionCount(Get(FSM_as_Dict, KeyTransitions), 1)
              = Cardinality(PairsOf(Member(FSM_as_Dict, KeyTransitions)))

\* C8 (amended): the same, provided none of the FSM name, the input path, the
\* output path, the notes and the state and trigger identifiers contains "->".
C8_ArrowLinesEqualTriggersIfArrowFree ==
    (/\ Rendered
     /\ ArrowFree(name) /\ ArrowFree(input_file_path) /\ ArrowFree(output_file_path)
     /\ ArrowFree(user_notes)
     /\ IdentifiersArrowFree(Member(FSM_as_Dict, KeyTransitions))) =>
        /\ ArrowLines(WrittenText) = Cardinality(PairsOf(Member(FSM_as_Dict, KeyTransitions)))
        /\ TransitionCount(Get(FSM_as_Dict, KeyTransitions), 1)
              = Cardinality(PairsOf(Member(FSM_as_Dict, KeyTransitions)))

\* A file with two edge lines was written from arrow-free inputs, one
\* identifier holding a newline.
C8_Witness ==
    /\ Rendered
    /\ ArrowFree(name) /\ ArrowFree(input_file_path) /\ ArrowFree(output_file_path)
    /\ ArrowFree(user_notes)
    /\ IdentifiersArrowFree(Member(FSM_as_Dict, KeyTransitions))
    /\ \E i \in 1..Len(Member(FSM_as_Dict, KeyTransitions).items) :
          IsSubstring(Newline, Member(FSM_as_Dict, KeyTransitions).items[i].key)
    /\ ArrowLines(WrittenText) = 2

(***************************************************************************)
(* C9                                                                      *)
(***************************************************************************)
\* C9 as stated: with double quotes in the notes, the written text has as many
\* unescaped double quotes as the text written for empty notes, so that the
\* label string is closed where the template closes it.
C9_NotesQuotesStayEscaped ==
    (Rendered /\ HasQuote(user_notes)) =>
        UnescapedQuotes(WrittenText)
           = UnescapedQuotes(DotText(FSM_as_Dict, name, input_file_path, dotFileName,
                                     <<>>, now))

(***************************************************************************)
(* C10                                                                     *)
(***************************************************************************)
IsPrefix(sq, full) == Len(sq) <= Len(full) /\ sq = SubSeq(full, 1, Len(sq))
Called(op) == \E k \in 1..Len(calls) : calls[k] = op
CliDone == mode = "cli" /\ pc = "done"
ValidateReturnedErrors == Called("validate") /\ ~result.raised /\ result.errors # <<>>
ValidateReturnedEmpty == Called("validate") /\ ~result.raised /\ result.errors = <<>>

\* In either caller the calls are load, validate, buildDotFile in that order,
\* and buildDotFile is called (and a file written) only after validate
\* returned the empty list; the CLI ends with a non-zero status and no file
\* when validate returned errors.
PipelineOrder ==
    /\ IsPrefix(calls, <<"load", "validate", "render">>)
    /\ Called("render") => ValidateReturnedEmpty
    /\ written # <<>> => Called("render")
    /\ (CliDone /\ ValidateReturnedErrors) => (exit_status # 0 /\ written = <<>>)

\* C10 as stated: the above, and in CLI mode an empty list leads to the DOT
\* file being written and a zero exit status.
C10_EmptyListWritesFile ==
    /\ PipelineOrder
    /\ (CliDone /\ ValidateReturnedEmpty) => (written # <<>> /\ exit_status = 0)

\* C10 (amended): the above, and in CLI mode an empty list leads to
\* buildDotFile being called; the file is written and the exit status is zero
\* unless the write itself fails, which ends the run with a non-zero status
\* and no file.
C10_EmptyListCallsRender ==
    /\ PipelineOrder
    /\ (CliDone /\ ValidateReturnedEmpty) =>
          /\ Called("render")
          /\ exit_status = 0 <=> written # <<>>
          /\ exit_status \in {0, 1}

\* A CLI run ended with status 0 after load, validate and buildDotFile, the
\* file written.
C10_Witness ==
    /\ CliDone /\ exit_status = 0
    /\ calls = <<"load", "validate", "render">>
    /\ written # <<>>

(***************************************************************************)
(* C11                                                                     *)
(***************************************************************************)
\* The path of the file of that name in that directory: <dir>/<file>, the
\* file name alone when the directory part is empty.
InDirectory(dir, file) ==
    IF dir = <<>> THEN file
    ELSE IF dir[Len(dir)] = "/" THEN dir \o file
    ELSE dir \o <<"/">> \o file

\* <fsmName>_<YYYYMMDD>.dot for the date buildDotFile() read.
DatedFileName == name \o <<"_">> \o FileDate(now) \o <<".","d","o","t">>

\* The path C11 names: the caller's target path when one was provided,
\* otherwise <directory of the input path>/<fsmName>_<YYYYMMDD>.dot.
StatedTarget ==
    IF output_file_path # <<>> THEN output_file_path
    ELSE InDirectory(Dirname(input_file_path), DatedFileName)

\* The same, except that a file name beginning with "/" (an FSM name that
\* begins with "/") is taken as it is, the input directory dropped.
JoinedTarget ==
    IF output_file_path # <<>> THEN output_file_path
    ELSE IF Head(DatedFileName) = "/" THEN DatedFileName
    ELSE InDirectory(Dirname(input_file_path), DatedFileName)

WithPdfExtension(dot_path) == SplitextRoot(dot_path) \o <<".","p","d","f">>

\* The fixed template of the renderer command over the two paths.
CommandTemplate(dot_path, pdf_path) ==
    <<"d","o","t"," ","-","T","p","d","f"," ","\"">> \o dot_path \o <<"\""," ","-","o"," ","\"">> \o pdf_path \o <<"\"">>

\* C12 as stated: in every state of the GUI, whatever edits of the four
\* fields and Browse actions came before, the displayed PDF path is the
\* displayed DOT path with its extension replaced by ".pdf" (both empty when
\* the DOT path is empty), and the displayed command is the fixed template
\* over the two displayed paths (read here for a non-empty DOT path only).
C12_DerivedFieldsFollowDotPath ==
    /\ pdf_var = (IF output_var = <<>> THEN <<>> ELSE WithPdfExtension(output_var))
    /\ output_var # <<>> => dot_command_var = CommandTemplate(output_var, pdf_var)

(***************************************************************************)
(* C13                                                                     *)
(***************************************************************************)
\* The step is a change of the input path or of the FSM name.
InputOrNameEvent == event' \in {"edit_input", "browse_input", "edit_name"}

\* The step set the FSM name.
NameChange == event' = "edit_name" \/ name_var' # name_var

\* The flag, once off, stays off; a Browse that put a path into the output
\* field turned it off; with the flag off no change of the input path or of
\* the FSM name touches the output path.
AutoUpdateStaysDisabled ==
    /\ ~_auto_update_output => ~_auto_update_output'
    /\ (event' = "browse_output" /\ output_var' # output_var) => ~_auto_update_output'
    /\ (~_auto_update_output /\ InputOrNameEvent) => output_var' = output_var

\* <input dir>/<name>_<YYYYMMDD>.dot over the fields after the step, empty
\* when the input path or the name is empty.
StatedSuggestion(t) ==
    IF input_var' = <<>> \/ name_var' = <<>> THEN <<>>
    ELSE InDirectory(Dirname(input_var'), name_var' \o <<"_">> \o FileDate(t) \o <<".","d","o","t">>)

\* The same, except that a name beginning with "/" drops the input directory.
JoinedSuggestion(t) ==
    IF input_var' = <<>> \/ name_var' = <<>> THEN <<>>
    ELSE IF Head(name_var') = "/" THEN name_var' \o <<"_">> \o FileDate(t) \o <<".","d","o","t">>
    ELSE InDirectory(Dirname(input_var'), name_var' \o <<"_">> \o FileDate(t) \o <<".","d","o","t">>)

\* C13 as stated: once a Browse (save-as) was confirmed the flag never
\* returns to True and no input-path or FSM-name change modifies the output
\* path; before that, every FSM-name change sets the output path to
\* <input dir>/<name>_<YYYYMMDD>.dot, or to empty when the input path or the
\* name is empty.
C13_AutoUpdateUntilBrowse ==
    [][/\ AutoUpdateStaysDisabled
       /\ (_auto_update_output /\ NameChange) =>
             \E t \in Times : output_var' = StatedSuggestion(t)]_vars

\* C13 (amended): the same, the suggested path being the join of the input
\* path's directory and <name>_<YYYYMMDD>.dot, which is that file name alone
\* when the name begins with "/".
C13_AutoUpdateUntilBrowseJoined ==
    [][/\ AutoUpdateStaysDisabled
       /\ (_auto_update_output /\ NameChange) =>
             \E t \in Times : output_var' = JoinedSuggestion(t)]_vars

\* The FSM name was edited after a Browse was confirmed, and the output field
\* still holds the path the dialog returned.
C13_Witness ==
    /\ ~_auto_update_output
    /\ event = "edit_name"
    /\ input_var # <<>> /\ name_var # <<>>
    /\ output_var \in SaveDialogPaths

(***************************************************************************)
(* C14                                                                     *)
(***************************************************************************)
\* C14: for every document load_FSM_Definition() can store, when validate()
\* has returned the empty list, buildDotFile() is invoked on a definition on
\* which it meets no structural failure (no KeyError, AttributeError or
\* TypeError while it iterates "transitions", reads each trigger's "status"
\* or reads state.status), so that it reaches its file-write step; it is
\* invoked on no other document.
C14_ValidationSufficesForRender ==
    /\ ValidateReturnedEmpty => ~RenderRaises(FSM_as_Dict)
    /\ Called("render") => (ValidateReturnedEmpty /\ ~RenderRaises(FSM_as_Dict))
    /\ (pc = "render_raised" /\ mode = "unit") => written = <<>>

\* buildDotFile() wrote the file of a definition with at least one transition
\* that validate() had accepted.
C14_Witness ==
    /\ Rendered
    /\ calls = <<"load", "validate", "render">>
    /\ PairsOf(Member(FSM_as_Dict, KeyTransitions)) # {}
    /\ WrittenText # <<>>

====
